---- MODULE Spec2Model ----
(***************************************************************************)
(* ACADEXA frontend: the voice console (VoiceConsolePage.tsx): speech      *)
(* capture adapter, command dispatcher, history ring buffer and the        *)
(* result-shape renderer.                                                  *)
(*                                                                         *)
(* A text is a sequence of characters; " " is the whitespace character.    *)
(* A nullable string is a string, Null or Undefined; a JSON value is a     *)
(* record with a field k ("undefined", "null", "object").                  *)
(***************************************************************************)
EXTENDS Integers, Sequences, FiniteSets, TLC

VARIABLES
    text,            \* useState("")          the command input
    loading,         \* useState(false)
    me,              \* useState<Me|null>     only the role is kept
    listening,       \* useState(false)
    voiceSupported,  \* useState(true)
    error,           \* useState<string|null>
    responseJson,    \* useState<any|null>    the displayed response
    history,         \* useState<HistoryItem[]>, newest first
    recognitionRef,  \* useRef: Null or "rec"
    effectsRun,      \* the mount effects (speech setup) have run
    recState,        \* the browser speech session behind recognitionRef
    inflight,        \* POST /voice/command requests awaiting completion
    idCount,         \* number of makeId() calls so far
    page,            \* the page as last rendered: quick commands and Response page
    \* App.tsx and api/client.ts
    appMe,           \* App: useState<Me|null>   only the role is kept
    meLoading,       \* App: useState(true)
    tab,             \* App: useState<Tab>("voice")
    token,           \* localStorage acadexa_token: Null or the account it was issued to
    authHeader,      \* api.defaults.headers.common["Authorization"]
    gradebook,       \* TeacherGradebook: courseId, items, scores, error, info
    probes,          \* the running calls of fetchItemsAndScores and their locals
    authInflight,    \* GET /auth/me requests awaiting completion, counted per token sent
    loginInflight,   \* POST /auth/token requests awaiting completion (the account)
    logins           \* number of login forms submitted so far

vars == <<text, loading, me, listening, voiceSupported, error, responseJson,
          history, recognitionRef, effectsRun, recState, inflight, idCount, page,
          appMe, meLoading, tab, token, authHeader, authInflight, loginInflight,
          logins, gradebook, probes>>

\* the state of VoiceConsolePage
pageVars == <<text, loading, me, listening, voiceSupported, error, responseJson,
              history, recognitionRef, effectsRun, recState, inflight, idCount, page>>

\* the state of App and of the token store
appVars == <<appMe, meLoading, tab, token, authHeader, authInflight,
             loginInflight, logins>>

\* the state of the teacher's gradebook page
gradebookVars == <<gradebook, probes>>

consoleVars == <<text, loading, me, listening, voiceSupported, error,
                 responseJson, history>>

\* ------------------------------------------------------------------ bounds
MaxSubmits == 2        \* accepted submissions per run, after the initial history
MaxInflight == 2       \* requests in flight at the same time
Prefilled == 9         \* commands already answered in the long-session start

\* --------------------------------------------------------------- constants
HistoryCap == 10       \* next.slice(0, 10)

Null == "null"
Undefined == "undefined"

\* ------------------------------------------------------------------- texts
Space == " "

RECURSIVE TrimStart(_)
TrimStart(s) ==
    IF s # <<>> /\ Head(s) = Space THEN TrimStart(Tail(s)) ELSE s

RECURSIVE TrimEnd(_)
TrimEnd(s) ==
    IF s # <<>> /\ s[Len(s)] = Space THEN TrimEnd(SubSeq(s, 1, Len(s) - 1)) ELSE s

\* a plausible slip: only leading whitespace removed
TrimStartOnly(s) == TrimStart(s)

\* a plausible slip: no trimming at all
NoTrim(s) == s

\* String.prototype.trim
Trim(s) == TrimEnd(TrimStart(s))

\* what the user can type into the input (onChange)
TypedTexts == { <<>>, <<Space>>, <<Space, "a", Space>> }

\* ------------------------------------------------------------- JSON values
JsonNull == [k |-> "null", intent |-> Undefined, results |-> "absent",
             rows |-> 0, results_type |-> Undefined, info |-> Undefined]

JsonUndefined == [JsonNull EXCEPT !.k = "undefined"]

\* an object reply of POST /voice/command; results: "absent", "null",
\* "array" (with rows entries) or "other" (a non-array value)
Reply(intent, results, rows, type, info) ==
    [k |-> "object", intent |-> intent, results |-> results, rows |-> rows,
     results_type |-> type, info |-> info]

\* JavaScript truthiness of a JSON value / of a nullable string
Truthy(v) == v.k = "object"

TruthyStr(s) == s \notin {Null, Undefined, ""}

\* ----------------------------------------------------------------- history
\* makeId(): a fresh identifier per call
MakeId(n) == n + 1

\* new Date().toLocaleString(): the logical time of the n-th submission
LocaleTime(n) == n + 1

\* the item sendCommand pushes: no response and no error key yet
NewItem(historyId, command, at) ==
    [id |-> historyId, text |-> command, at |-> at,
     response |-> JsonUndefined, error |-> Undefined]

Take(s, n) == SubSeq(s, 1, IF Len(s) < n THEN Len(s) ELSE n)

\* a plausible slip: the new item is put in front but nothing is cut off
PushHistoryNoSlice(item, prev) == <<item>> \o prev

\* a plausible slip: an older entry with the same text is replaced
PushHistoryDedup(item, prev) ==
    Take(<<item>> \o SelectSeq(prev, LAMBDA h : h.text # item.text), HistoryCap)

\* a plausible slip: the new item is put at the end
PushHistoryAtEnd(item, prev) == Take(prev \o <<item>>, HistoryCap)

\* pushHistory: [item, ...prev].slice(0, 10)
PushHistory(item, prev) == Take(<<item>> \o prev, HistoryCap)

\* { ...h, ...patch }
Merge(h, patch) ==
    [f \in DOMAIN h |-> IF f \in DOMAIN patch THEN patch[f] ELSE h[f]]

\* a plausible slip: the patch is applied without looking at the id
UpdateHistoryAll(prev, id, patch) ==
    [i \in 1..Len(prev) |-> Merge(prev[i], patch)]

\* updateHistory: prev.map(h => h.id === id ? {...h, ...patch} : h)
UpdateHistory(prev, id, patch) ==
    [i \in 1..Len(prev) |-> IF prev[i].id = id THEN Merge(prev[i], patch) ELSE prev[i]]

Ids(h) == { h[i].id : i \in 1..Len(h) }

\* ---------------------------------------------------------------- backend
\* successful replies of POST /voice/command (res.data)
StudentsReply == Reply("list_students", "array", 1, "students", Null)

UnknownReply == Reply("unknown", "absent", 0, Undefined, "I couldn't understand this command.")

\* the replies that have the response shape of the backend: an object
ObjectReplies == { StudentsReply, UnknownReply }

\* res.data is typed any: a 200 answer may also carry the JSON value null
OkReplies == ObjectReplies \cup { JsonNull }

\* the body of an HTTP error response (err.response.data): a string, a JSON
\* object such as FastAPI's {"detail": ...}, or no body at all
StringBody(str) == [k |-> "string", v |-> str]

ObjectBody(detail) == [k |-> "object", v |-> detail]

NoBody == [k |-> "undefined", v |-> ""]

\* typeof data === "string" ? data : JSON.stringify(data)
BodyText(data) ==
    IF data.k = "string" THEN data.v
    ELSE IF data.k = "object" THEN "{\"detail\":\"" \o data.v \o "\"}"
    ELSE "undefined"

\* failures of api.post: an HTTP error response, a request without a
\* response (also the client timeout), or any other exception
HttpFailure(status, data) ==
    [kind |-> "response", status |-> status, data |-> data, message |-> ""]

RequestFailure(message) ==
    [kind |-> "request", status |-> 0, data |-> NoBody, message |-> message]

SetupFailure(message) ==
    [kind |-> "other", status |-> 0, data |-> NoBody, message |-> message]

NoResponse == RequestFailure("timeout of 10000ms exceeded")

OtherFailure == SetupFailure("boom")

Failures == { HttpFailure(401, ObjectBody("Not authenticated")),
              HttpFailure(500, StringBody("Internal Server Error")),
              NoResponse, OtherFailure }

NotAuthenticatedMessage == "Not authenticated. Please login first."

NoResponseMessage == "No response from server. Is backend running on 127.0.0.1:8000?"

\* a plausible slip: 401 is not singled out
FailureMessageNo401(err) ==
    IF err.kind = "response"
    THEN "Error " \o ToString(err.status) \o ": " \o BodyText(err.data)
    ELSE IF err.kind = "request"
         THEN NoResponseMessage
         ELSE "Unexpected error: " \o err.message

\* the message the catch block of sendCommand builds
FailureMessage(err) ==
    IF err.kind = "response"
    THEN IF err.status = 401
         THEN NotAuthenticatedMessage
         ELSE "Error " \o ToString(err.status) \o ": " \o BodyText(err.data)
    ELSE IF err.kind = "request"
         THEN NoResponseMessage
         ELSE "Unexpected error: " \o err.message

\* ------------------------------------------------------- command dispatcher
SubmitLimit == IF idCount >= Prefilled THEN Prefilled + MaxSubmits ELSE MaxSubmits

\* sendCommand(overrideText), up to the await; src is (overrideText ?? text)
SendCommand(src) ==
    LET command == Trim(src) IN
    IF command = <<>>
    THEN UNCHANGED vars
    ELSE /\ idCount < SubmitLimit
         /\ Cardinality(inflight) < MaxInflight
         /\ LET historyId == MakeId(idCount) IN
            /\ history' = PushHistory(NewItem(historyId, command, LocaleTime(idCount)), history)
            /\ inflight' = inflight \cup { [id |-> historyId, text |-> command] }
         /\ idCount' = idCount + 1
         /\ loading' = TRUE
         /\ error' = Null
         /\ responseJson' = JsonNull
         /\ UNCHANGED <<text, me, listening, voiceSupported, recognitionRef,
                        effectsRun, recState, page, appVars, gradebookVars>>

\* a plausible slip: only the reply of the latest submission is displayed
CommandSucceedsIfCurrent(r, data) ==
    /\ r \in inflight
    /\ inflight' = inflight \ {r}
    /\ responseJson' = IF r.id = MakeId(idCount - 1) THEN data ELSE responseJson
    /\ history' = UpdateHistory(history, r.id, [response |-> data, error |-> Null])
    /\ text' = <<>>
    /\ loading' = FALSE
    /\ UNCHANGED <<me, listening, voiceSupported, error, recognitionRef,
                   effectsRun, recState, idCount, page, appVars, gradebookVars>>

\* a plausible slip: a reply that names no known intent is treated as a failure
CommandSucceedsUnknownFails(r, data) ==
    /\ r \in inflight
    /\ inflight' = inflight \ {r}
    /\ IF Truthy(data) /\ data.intent = "unknown"
       THEN /\ error' = "Unknown command"
            /\ history' = UpdateHistory(history, r.id, [error |-> "Unknown command"])
            /\ UNCHANGED <<responseJson, text>>
       ELSE /\ responseJson' = data
            /\ history' = UpdateHistory(history, r.id, [response |-> data, error |-> Null])
            /\ text' = <<>>
            /\ UNCHANGED error
    /\ loading' = FALSE
    /\ UNCHANGED <<me, listening, voiceSupported, recognitionRef,
                   effectsRun, recState, idCount, page, appVars, gradebookVars>>

\* a plausible slip: a reply whose entry is gone is put back into the history
CommandSucceedsUpsert(r, data) ==
    /\ r \in inflight
    /\ inflight' = inflight \ {r}
    /\ responseJson' = data
    /\ history' = IF r.id \in Ids(history)
                  THEN UpdateHistory(history, r.id, [response |-> data, error |-> Null])
                  ELSE PushHistory([NewItem(r.id, r.text, r.id)
                                       EXCEPT !.response = data, !.error = Null],
                                   history)
    /\ text' = <<>>
    /\ loading' = FALSE
    /\ UNCHANGED <<me, listening, voiceSupported, error, recognitionRef,
                   effectsRun, recState, idCount, page, appVars, gradebookVars>>

\* sendCommand after the await, success: try block, then finally
CommandSucceeds(r, data) ==
    /\ r \in inflight
    /\ inflight' = inflight \ {r}
    /\ responseJson' = data
    /\ history' = UpdateHistory(history, r.id, [response |-> data, error |-> Null])
    /\ text' = <<>>
    /\ loading' = FALSE
    /\ UNCHANGED <<me, listening, voiceSupported, error, recognitionRef,
                   effectsRun, recState, idCount, page, appVars, gradebookVars>>

\* a plausible slip: a failure whose entry is gone is put back into the history
CommandFailsUpsert(r, err) ==
    /\ r \in inflight
    /\ inflight' = inflight \ {r}
    /\ error' = FailureMessage(err)
    /\ history' = IF r.id \in Ids(history)
                  THEN UpdateHistory(history, r.id, [error |-> FailureMessage(err)])
                  ELSE PushHistory([NewItem(r.id, r.text, r.id) EXCEPT !.error = FailureMessage(err)],
                                   history)
    /\ loading' = FALSE
    /\ UNCHANGED <<text, me, listening, voiceSupported, responseJson,
                   recognitionRef, effectsRun, recState, idCount, page, appVars, gradebookVars>>

\* a plausible slip: loading is reset at the end of the try block only
CommandFailsNoFinally(r, err) ==
    /\ r \in inflight
    /\ inflight' = inflight \ {r}
    /\ error' = FailureMessage(err)
    /\ history' = UpdateHistory(history, r.id, [error |-> FailureMessage(err)])
    /\ UNCHANGED <<text, loading, me, listening, voiceSupported, responseJson,
                   recognitionRef, effectsRun, recState, idCount, page, appVars, gradebookVars>>

\* sendCommand after the await, failure: catch block, then finally
CommandFails(r, err) ==
    /\ r \in inflight
    /\ inflight' = inflight \ {r}
    /\ error' = FailureMessage(err)
    /\ history' = UpdateHistory(history, r.id, [error |-> FailureMessage(err)])
    /\ loading' = FALSE
    /\ UNCHANGED <<text, me, listening, voiceSupported, responseJson,
                   recognitionRef, effectsRun, recState, idCount, page, appVars, gradebookVars>>

\* <input onChange>
SetText(t) ==
    /\ t # text
    /\ text' = t
    /\ UNCHANGED <<loading, me, listening, voiceSupported, error, responseJson,
                   history, recognitionRef, effectsRun, recState, inflight,
                   idCount, page, appVars, gradebookVars>>

\* handleSubmit: the form's onSubmit (Enter in the input)
HandleSubmit ==
    IF Trim(text) = <<>> THEN UNCHANGED vars ELSE SendCommand(text)

\* the Send button
SendClick ==
    /\ ~(loading \/ listening \/ Trim(text) = <<>>)
    /\ SendCommand(text)

\* role-based quick commands
QuickCommands(m) ==
    IF m = "student"
    THEN << <<"show", Space, "my", Space, "gpa">>,
            <<"which", Space, "courses", Space, "am", Space, "I", Space, "enrolled", Space, "in">>,
            <<"my", Space, "enrollments">>,
            <<"list", Space, "courses">> >>
    ELSE IF m = "teacher"
    THEN << <<"which", Space, "courses", Space, "am", Space, "I", Space, "teaching">>,
            <<"show", Space, "my", Space, "enrollments">>,
            <<"list", Space, "courses">>,
            <<"list", Space, "students">> >>
    ELSE << <<"list", Space, "students">>,
            <<"list", Space, "teachers">>,
            <<"list", Space, "courses">>,
            <<"list", Space, "enrollments", Space, "for", Space, "student", Space, "1">> >>

\* the quick command buttons the user clicks: the first of the role's list
QuickClicks == { 1 }

\* a quick command button
QuickCommand(n) ==
    /\ ~loading
    /\ n \in 1..Len(QuickCommands(me))
    /\ SendCommand(QuickCommands(me)[n])

\* the Run button of history entry i
Run(i) ==
    /\ ~loading
    /\ i \in 1..Len(history)
    /\ SendCommand(history[i].text)

\* a plausible slip: View is not disabled for entries without a response
ViewUnguarded(i) ==
    /\ i \in 1..Len(history)
    /\ ~loading
    /\ responseJson' = history[i].response
    /\ UNCHANGED <<text, loading, me, listening, voiceSupported, error, history,
                   recognitionRef, effectsRun, recState, inflight, idCount, page, appVars, gradebookVars>>

\* a plausible slip: View also dismisses the error message
ViewClearsError(i) ==
    /\ i \in 1..Len(history)
    /\ ~(loading \/ ~Truthy(history[i].response))
    /\ responseJson' = history[i].response
    /\ error' = Null
    /\ UNCHANGED <<text, loading, me, listening, voiceSupported, history,
                   recognitionRef, effectsRun, recState, inflight, idCount, page, appVars, gradebookVars>>

\* the View button of history entry i
View(i) ==
    /\ i \in 1..Len(history)
    /\ ~(loading \/ ~Truthy(history[i].response))
    /\ responseJson' = history[i].response
    /\ UNCHANGED <<text, loading, me, listening, voiceSupported, error, history,
                   recognitionRef, effectsRun, recState, inflight, idCount, page, appVars, gradebookVars>>

\* handleClear: the Clear button
HandleClear ==
    /\ ~loading
    /\ text' = <<>>
    /\ error' = Null
    /\ responseJson' = JsonNull
    /\ UNCHANGED <<loading, me, listening, voiceSupported, history,
                   recognitionRef, effectsRun, recState, inflight, idCount, page, appVars, gradebookVars>>

\* ------------------------------------------------------------------ effects
\* loadMe: what GET /auth/me has answered when the page is used: the role of
\* res.data, Null while unanswered or failed. It only selects the quick
\* commands; each behaviour keeps the answer of its initial state.
MeAnswers == { "student", Null }

\* the speech setup effect; ctor is window.SpeechRecognition ||
\* window.webkitSpeechRecognition || null
SetupSpeech(ctor) ==
    /\ ~effectsRun
    /\ effectsRun' = TRUE
    /\ IF ctor = Null
       THEN voiceSupported' = FALSE /\ UNCHANGED recognitionRef
       ELSE recognitionRef' = "rec" /\ UNCHANGED voiceSupported
    /\ UNCHANGED <<text, loading, me, listening, error, responseJson, history,
                   recState, inflight, idCount, page, appVars, gradebookVars>>

\* ------------------------------------------------------------ speech adapter
\* The browser's recognition session: "idle"; "starting" (start() accepted,
\* onstart not yet delivered); "active"; "stopping" (stop() accepted, the
\* audio capture is over, onend not yet delivered); "errored" (onerror
\* delivered, onend not yet delivered).
Capturing == { "starting", "active" }

UnsupportedMessage ==
    "Speech recognition is not supported in this browser. Use Chrome/Edge, or type the command."

StartFailedMessage == "Could not start microphone. Please try again."

\* a plausible slip: start on a started session restarts it
StartListeningRestarts ==
    /\ IF ~voiceSupported \/ recognitionRef = Null
       THEN error' = UnsupportedMessage /\ UNCHANGED recState
       ELSE error' = Null /\ recState' = "starting"
    /\ UNCHANGED <<text, loading, me, listening, voiceSupported, responseJson,
                   history, recognitionRef, effectsRun, inflight, idCount, page, appVars, gradebookVars>>

\* a plausible slip: the flag is set by the click, before the engine answers
StartListeningOptimistic ==
    /\ IF ~voiceSupported \/ recognitionRef = Null
       THEN error' = UnsupportedMessage /\ UNCHANGED recState
       ELSE IF recState = "idle"
            THEN error' = Null /\ recState' = "starting"
            ELSE error' = StartFailedMessage /\ UNCHANGED recState
    /\ listening' = TRUE
    /\ UNCHANGED <<text, loading, me, voiceSupported, responseJson,
                   history, recognitionRef, effectsRun, inflight, idCount, page, appVars, gradebookVars>>

\* startListening
StartListening ==
    /\ IF ~voiceSupported \/ recognitionRef = Null
       THEN error' = UnsupportedMessage /\ UNCHANGED recState
       ELSE IF recState = "idle"
            THEN error' = Null /\ recState' = "starting"
            ELSE error' = StartFailedMessage /\ UNCHANGED recState
    /\ UNCHANGED <<text, loading, me, listening, voiceSupported, responseJson,
                   history, recognitionRef, effectsRun, inflight, idCount, page, appVars, gradebookVars>>

\* a plausible slip: stop also resets the flag and the message itself
StopListeningResets ==
    /\ recState' = IF recognitionRef # Null /\ recState \in Capturing
                   THEN "stopping" ELSE recState
    /\ listening' = FALSE
    /\ error' = Null
    /\ UNCHANGED <<text, loading, me, voiceSupported, responseJson, history,
                   recognitionRef, effectsRun, inflight, idCount, page, appVars, gradebookVars>>

\* stopListening: recognitionRef.current?.stop()
StopListening ==
    /\ recState' = IF recognitionRef # Null /\ recState \in Capturing
                   THEN "stopping" ELSE recState
    /\ UNCHANGED <<text, loading, me, listening, voiceSupported, error,
                   responseJson, history, recognitionRef, effectsRun, inflight,
                   idCount, page, appVars, gradebookVars>>

\* the Mic button: onClick={listening ? stopListening : startListening},
\* disabled={loading || !voiceSupported}
MicStart == ~(loading \/ ~voiceSupported) /\ ~listening /\ StartListening

MicStop == ~(loading \/ ~voiceSupported) /\ listening /\ StopListening

\* rec.onstart
RecOnStart ==
    /\ recState = "starting"
    /\ recState' = "active"
    /\ listening' = TRUE
    /\ error' = Null
    /\ UNCHANGED <<text, loading, me, voiceSupported, responseJson, history,
                   recognitionRef, effectsRun, inflight, idCount, page, appVars, gradebookVars>>

\* a plausible slip: onend leaves the flag to the stop handler
RecOnEndKeepsFlag ==
    /\ recState \in { "active", "stopping", "errored" }
    /\ recState' = "idle"
    /\ UNCHANGED <<text, loading, me, listening, voiceSupported, error, responseJson,
                   history, recognitionRef, effectsRun, inflight, idCount, page, appVars, gradebookVars>>

\* rec.onend
RecOnEnd ==
    /\ recState \in { "active", "stopping", "errored" }
    /\ recState' = "idle"
    /\ listening' = FALSE
    /\ UNCHANGED <<text, loading, me, voiceSupported, error, responseJson,
                   history, recognitionRef, effectsRun, inflight, idCount, page, appVars, gradebookVars>>

SpeechErrors == { "not-allowed", "no-speech", "network" }

\* a plausible slip: one message for every engine error
SpeechErrorMessageGeneric(e) ==
    "Speech recognition error: " \o (IF TruthyStr(e) THEN e ELSE "unknown")

SpeechErrorMessage(e) ==
    IF e = "not-allowed" \/ e = "service-not-allowed"
    THEN "Microphone permission denied. Allow mic permission in browser site settings, then reload."
    ELSE IF e = "no-speech"
         THEN "No speech detected. Try again and speak clearly."
         ELSE "Speech recognition error: " \o (IF TruthyStr(e) THEN e ELSE "unknown")

\* rec.onerror
RecOnError(e) ==
    /\ recState \in { "starting", "active", "stopping" }
    /\ recState' = "errored"
    /\ listening' = FALSE
    /\ error' = SpeechErrorMessage(e)
    /\ UNCHANGED <<text, loading, me, voiceSupported, responseJson, history,
                   recognitionRef, effectsRun, inflight, idCount, page, appVars, gradebookVars>>

\* the result lists the engine delivers: resultIndex and results
SpeechEvents ==
    { [resultIndex |-> 1, results |-> << [transcript |-> <<"a">>, isFinal |-> FALSE] >>],
      [resultIndex |-> 1, results |-> << [transcript |-> <<"a", Space>>, isFinal |-> TRUE],
                                         [transcript |-> <<"c">>, isFinal |-> FALSE] >>],
      [resultIndex |-> 2, results |-> << [transcript |-> <<"c">>, isFinal |-> TRUE],
                                         [transcript |-> <<Space>>, isFinal |-> FALSE] >>] }

\* the loop of rec.onresult from index i: all chunks, or the final ones only
RECURSIVE Transcript(_, _, _)
Transcript(results, i, finalOnly) ==
    IF i > Len(results)
    THEN <<>>
    ELSE (IF finalOnly /\ ~results[i].isFinal THEN <<>> ELSE results[i].transcript)
         \o Transcript(results, i + 1, finalOnly)

\* (finalTranscript || transcript).trim()
Merged(event) ==
    LET transcript == Transcript(event.results, event.resultIndex, FALSE)
        finalTranscript == Transcript(event.results, event.resultIndex, TRUE)
    IN  Trim(IF finalTranscript # <<>> THEN finalTranscript ELSE transcript)

\* rec.onresult
RecOnResult(event) ==
    /\ recState \in { "active", "stopping" }
    /\ text' = IF Merged(event) # <<>> THEN Merged(event) ELSE text
    /\ UNCHANGED <<loading, me, listening, voiceSupported, error, responseJson,
                   history, recognitionRef, effectsRun, recState, inflight,
                   idCount, page, appVars, gradebookVars>>

\* ----------------------------------------------------------------- renderer
\* responseJson.parsed?.intent || "unknown"
IntentOf(r) == IF TruthyStr(r.intent) THEN r.intent ELSE "unknown"

\* !results || !Array.isArray(results) || results.length === 0
NoRows(r) == r.results # "array" \/ r.rows = 0

Columns(type) ==
    IF type = "students" THEN <<"ID", "Name", "Department", "GPA">>
    ELSE IF type = "courses" THEN <<"ID", "Code", "Title", "Credit hours">>
    ELSE IF type = "teachers" THEN <<"ID", "Name", "Department", "Email", "Expertise">>
    ELSE IF type = "enrollments"
         THEN <<"ID", "Student", "Course", "Semester", "Status", "Grade">>
    ELSE <<>>

Nothing == [kind |-> "nothing", columns |-> <<>>, rows |-> 0]

NoRecords == [kind |-> "no-records", columns |-> <<>>, rows |-> 0]

\* a plausible slip: no fallback for a results_type without a table
RenderResultsTableNoFallback(r) ==
    IF ~Truthy(r) THEN Nothing
    ELSE IF NoRows(r) THEN Nothing
    ELSE IF r.results_type \in { "students", "courses", "teachers", "enrollments" }
         THEN [kind |-> "table", columns |-> Columns(r.results_type), rows |-> r.rows]
         ELSE Nothing

\* renderResultsTable: null, a table with the type's columns, or the <pre> dump
RenderResultsTable(r) ==
    IF ~Truthy(r) THEN Nothing
    ELSE IF NoRows(r) THEN Nothing
    ELSE IF r.results_type \in { "students", "courses", "teachers", "enrollments" }
         THEN [kind |-> "table", columns |-> Columns(r.results_type), rows |-> r.rows]
         ELSE [kind |-> "dump", columns |-> <<>>, rows |-> r.rows]

\* a plausible slip: the zero-row message is shown without looking at the intent
RenderResultsSectionAnyIntent(r) ==
    IF ~Truthy(r) THEN Nothing
    ELSE IF NoRows(r) THEN NoRecords
    ELSE RenderResultsTable(r)

\* a plausible slip: the zero-row case falls through to the table
RenderResultsSectionEmptyTable(r) ==
    IF ~Truthy(r) THEN Nothing
    ELSE IF r.results # "array" THEN (IF IntentOf(r) # "unknown" THEN NoRecords ELSE Nothing)
    ELSE [kind |-> "table", columns |-> Columns(r.results_type), rows |-> r.rows]

\* a plausible slip: a results_type without a table counts as no records
RenderResultsSectionUnknownType(r) ==
    IF ~Truthy(r) THEN Nothing
    ELSE IF NoRows(r)
         THEN (IF IntentOf(r) # "unknown" THEN NoRecords ELSE Nothing)
         ELSE IF r.results_type \notin { "students", "courses", "teachers", "enrollments" }
                 /\ IntentOf(r) # "unknown"
              THEN NoRecords
              ELSE RenderResultsTable(r)

\* renderResultsSection
RenderResultsSection(r) ==
    IF ~Truthy(r) THEN Nothing
    ELSE IF NoRows(r)
         THEN (IF IntentOf(r) # "unknown" THEN NoRecords ELSE Nothing)
         ELSE RenderResultsTable(r)

NotRendered == [state |-> "not-rendered", info |-> Null, intent |-> Null, section |-> Nothing]

\* the Response page: the placeholder, the waiting line, or info / intent /
\* results section of the displayed response
ResponseCard(r, isLoading) ==
    IF isLoading THEN [NotRendered EXCEPT !.state = "waiting"]
    ELSE IF ~Truthy(r) THEN [NotRendered EXCEPT !.state = "no-command"]
    ELSE [state |-> "response",
          info |-> IF TruthyStr(r.info) THEN r.info ELSE Null,
          intent |-> IntentOf(r),
          section |-> RenderResultsSection(r)]

\* the page is rendered with the current state
Render ==
    /\ page' = [quick |-> QuickCommands(me), response |-> ResponseCard(responseJson, loading)]
    /\ page' # page
    /\ UNCHANGED <<text, loading, me, listening, voiceSupported, error,
                   responseJson, history, recognitionRef, effectsRun, recState,
                   inflight, idCount, appVars, gradebookVars>>

\* ---------------------------------------------------------------------- App
MaxLogins == 2         \* login forms submitted per run

Roles == { "admin", "student", "teacher", "hod" }

\* a token is named by the account it was issued to, an account by its role
AuthTokens == Roles \cup { Null }

ManagementTabs == { "students", "teachers", "courses", "enrollments", "analytics", "fees" }

Tabs == ManagementTabs \cup { "voice", "student_home", "teacher_home", "hod_home",
                              "teacher_attendance", "student_attendance" }

\* loadMe: the tab chosen for the role of res.data
TabFor(role) ==
    IF role = "admin" THEN "students"
    ELSE IF role = "student" THEN "student_home"
    ELSE IF role = "teacher" THEN "teacher_home"
    ELSE IF role = "hod" THEN "hod_home"
    ELSE "voice"

\* a plausible slip: teachers are let into the department pages too
CanManageStaff(role) == role \in { "admin", "hod", "teacher" }

\* canManageDepartment = isAdmin || isHod
CanManageDepartment(role) == role = "admin" \/ role = "hod"

\* the buttons of the navbar
NavTabs(role) ==
    (IF role = "student" THEN { "student_home" } ELSE {})
    \cup (IF role = "teacher" THEN { "teacher_home" } ELSE {})
    \cup (IF role = "hod" THEN { "hod_home" } ELSE {})
    \cup (IF CanManageDepartment(role) THEN ManagementTabs ELSE {})
    \cup { "voice" }

\* what App renders: the loading line, the login box, or the page of <main>
\* ("none" when no line of <main> matches)
MainPage(m, isLoading, t) ==
    IF isLoading THEN "Loading"
    ELSE IF m = Null THEN "LoginBox"
    ELSE IF t = "student_home" /\ m = "student" THEN "student_home"
    ELSE IF t = "teacher_home" /\ m = "teacher" THEN "teacher_home"
    ELSE IF t = "hod_home" /\ m = "hod" THEN "hod_home"
    ELSE IF t \in ManagementTabs /\ CanManageDepartment(m) THEN t
    ELSE IF t = "teacher_attendance" /\ m = "teacher" THEN "teacher_attendance"
    ELSE IF t = "student_attendance" /\ m = "student" THEN "student_attendance"
    ELSE IF t = "voice" THEN "voice"
    ELSE "none"

Shown == MainPage(appMe, meLoading, tab)

NoAuthRequests == [t \in AuthTokens |-> 0]

\* n calls of loadMe: api.get("/auth/me") with the token stored at that time
Issue(requests, t, n) == [requests EXCEPT ![t] = @ + n]

\* the default Authorization header: absent, or `Bearer ${t}`
NoHeader == <<>>

Bearer(t) == <<"Bearer", t>>

\* setAuthToken(t): the token stored afterwards (setItem / removeItem)
StoredAfter(t) == IF t # Null THEN t ELSE Null

\* setAuthToken(t): api.defaults.headers.common["Authorization"] afterwards
HeaderAfter(t) == IF t # Null THEN Bearer(t) ELSE NoHeader

\* setAuthToken(t): the acadexa-auth-changed events dispatched when prev was
\* stored before the call
DispatchedAlways(prev, t) == 1

Dispatched(prev, t) == IF prev # t THEN 1 ELSE 0

\* setAuthToken(t) as a whole; App's listener answers each event with loadMe,
\* whose request carries the token stored by then
SetAuthToken(t) ==
    /\ token' = StoredAfter(t)
    /\ authHeader' = HeaderAfter(t)
    /\ authInflight' = Issue(authInflight, StoredAfter(t), Dispatched(token, t))

\* loadMe after the await, success: the server answers with the account of
\* the token the request carried
LoadMeSucceeds(t) ==
    /\ t # Null
    /\ authInflight[t] > 0
    /\ authInflight' = [authInflight EXCEPT ![t] = @ - 1]
    /\ appMe' = t
    /\ tab' = TabFor(t)
    /\ meLoading' = FALSE
    /\ UNCHANGED <<pageVars, gradebookVars, token, authHeader, loginInflight, logins>>

\* loadMe after the await, failure (401 without a valid token, or no answer)
LoadMeFails(t) ==
    /\ authInflight[t] > 0
    /\ authInflight' = [authInflight EXCEPT ![t] = @ - 1]
    /\ appMe' = Null
    /\ meLoading' = FALSE
    /\ UNCHANGED <<pageVars, gradebookVars, tab, token, authHeader, loginInflight, logins>>

\* LoginBox login, up to the await: the Sign In button is disabled while a
\* login is pending
LoginSubmit(account) ==
    /\ Shown = "LoginBox"
    /\ loginInflight = {}
    /\ logins < MaxLogins
    /\ loginInflight' = { account }
    /\ logins' = logins + 1
    /\ UNCHANGED <<pageVars, gradebookVars, appMe, meLoading, tab, token, authHeader, authInflight>>

\* LoginBox login after the await, success: the token is stored (setItem,
\* then setAuthToken, which finds it stored already and dispatches nothing),
\* then onLoggedIn() and the acadexa-auth-changed event each call loadMe
LoginSucceeds(account) ==
    /\ account \in loginInflight
    /\ loginInflight' = loginInflight \ { account }
    /\ token' = StoredAfter(account)
    /\ authHeader' = HeaderAfter(account)
    /\ authInflight' = Issue(authInflight, account, 2 + Dispatched(account, account))
    /\ UNCHANGED <<pageVars, gradebookVars, appMe, meLoading, tab, logins>>

\* LoginBox login after the await, failure: only the box's own message
LoginFails(account) ==
    /\ account \in loginInflight
    /\ loginInflight' = loginInflight \ { account }
    /\ UNCHANGED <<pageVars, gradebookVars, appMe, meLoading, tab, token, authHeader,
                   authInflight, logins>>

\* handleLogout: setAuthToken(null) removes the token and, if one was
\* stored, dispatches acadexa-auth-changed (loadMe without a token)
HandleLogout ==
    /\ Shown \notin { "Loading", "LoginBox" }
    /\ SetAuthToken(Null)
    /\ appMe' = Null
    /\ tab' = "voice"
    /\ UNCHANGED <<pageVars, gradebookVars, meLoading, loginInflight, logins>>

\* a navbar button
SetTab(t) ==
    /\ Shown \notin { "Loading", "LoginBox" }
    /\ t \in NavTabs(appMe)
    /\ t # tab
    /\ tab' = t
    /\ UNCHANGED <<pageVars, gradebookVars, appMe, meLoading, token, authHeader, authInflight,
                   loginInflight, logins>>

\* ---------------------------------------------------------------- gradebook
\* concurrent calls of fetchItemsAndScores followed at a time
MaxProbes == 1

\* the courses of the select box; "" is "-- choose --"
NoCourse == ""

Courses == { "101", "102" }

ItemsUrls(cid) == << <<"/assessments/teacher/course/", cid, "/items">>,
                     <<"/assessments/course/", cid, "/items">> >>

ScoresUrls(cid) == << <<"/assessments/teacher/course/", cid, "/scores">>,
                      <<"/assessments/course/", cid, "/scores">> >>

\* res.data of a 2xx answer: the JSON value null or an array
NullBody == [k |-> "null", rows |-> <<>>]

Array(rows) == [k |-> "array", rows |-> rows]

\* res.data || []
OrEmpty(data) == IF data.k = "null" THEN <<>> ELSE data.rows

AssessmentItem(id) == [id |-> id]

ScoreCell(item, enrollment, marks) ==
    [assessment_item_id |-> item, enrollment_id |-> enrollment,
     obtained_marks |-> marks]

ItemsBodies ==
    { NullBody, Array(<<>>), Array(<<AssessmentItem(1)>>),
      Array(<<AssessmentItem(1), AssessmentItem(2)>>) }

ScoresBodies ==
    { NullBody, Array(<<>>), Array(<<ScoreCell(1, 1, 7)>>),
      Array(<<ScoreCell(1, 1, 7), ScoreCell(1, 1, 0)>>) }

\* the Record<string, number> built from the cells, as its set of
\* key/value pairs; a later cell of the same key replaces the earlier one
RECURSIVE ScoreMap(_)
ScoreMap(cells) ==
    IF cells = <<>> THEN {}
    ELSE LET s == cells[Len(cells)]
             key == <<s.assessment_item_id, s.enrollment_id>>
             rest == ScoreMap(SubSeq(cells, 1, Len(cells) - 1))
         IN  { e \in rest : e.key # key }
                 \cup { [key |-> key, value |-> s.obtained_marks] }

EndpointsMissing ==
    "Gradebook endpoints missing. Backend me assessments routes implement karni hongi (items + scores)."

\* !okItems && !okScores
ProbeFailedBoth(okItems, okScores) == ~okItems /\ ~okScores

\* !okItems || !okScores
ProbeFailed(okItems, okScores) == ~okItems \/ ~okScores

\* a slot without a running call; log keeps the answers of its last call
Idle(log) == [pc |-> "idle", cid |-> NoCourse, k |-> 0, okItems |-> FALSE,
              itemsData |-> <<>>, log |-> log]

Slots == 1..MaxProbes

\* fetchItemsAndScores(cid) up to its first await
FetchItemsAndScores(slot, cid) ==
    /\ probes[slot].pc = "idle"
    /\ probes' = [probes EXCEPT ![slot] =
                     [pc |-> "items", cid |-> cid, k |-> 1, okItems |-> FALSE,
                      itemsData |-> <<>>, log |-> <<>>]]

\* the effect on courseId: a selected course is loaded
SelectCourse(slot, cid) ==
    /\ cid # gradebook.courseId
    /\ IF cid = NoCourse
          THEN /\ slot = 1
               /\ gradebook' = [gradebook EXCEPT !.courseId = cid]
               /\ UNCHANGED probes
          ELSE /\ FetchItemsAndScores(slot, cid)
               /\ gradebook' = [gradebook EXCEPT !.courseId = cid,
                                                 !.info = Null, !.error = Null]
    /\ UNCHANGED <<pageVars, appVars>>

\* the Refresh button
Refresh(slot) ==
    /\ gradebook.courseId # NoCourse
    /\ FetchItemsAndScores(slot, gradebook.courseId)
    /\ gradebook' = [gradebook EXCEPT !.info = Null, !.error = Null]
    /\ UNCHANGED <<pageVars, appVars>>

Answer(url, ok, data) == [url |-> url, ok |-> ok, data |-> data]

\* the answer to the k-th items request: the loop breaks on success and
\* goes on to the next URL on failure; the scores loop follows
ItemsAnswer(slot, ok, data) ==
    LET p == probes[slot]
        log == Append(p.log, Answer(ItemsUrls(p.cid)[p.k], ok, data))
    IN  /\ p.pc = "items"
        /\ probes' = [probes EXCEPT ![slot] =
              IF ok
                THEN [p EXCEPT !.pc = "scores", !.k = 1, !.okItems = TRUE,
                               !.itemsData = OrEmpty(data), !.log = log]
              ELSE IF p.k < Len(ItemsUrls(p.cid))
                THEN [p EXCEPT !.k = p.k + 1, !.log = log]
              ELSE [p EXCEPT !.pc = "scores", !.k = 1, !.log = log]]
        /\ UNCHANGED <<pageVars, appVars, gradebook>>

\* the answer to the k-th scores request, and on leaving the loop the end
\* of fetchItemsAndScores
ScoresAnswer(slot, ok, data) ==
    LET p == probes[slot]
        log == Append(p.log, Answer(ScoresUrls(p.cid)[p.k], ok, data))
    IN  /\ p.pc = "scores"
        /\ IF ~ok /\ p.k < Len(ScoresUrls(p.cid))
              THEN /\ probes' = [probes EXCEPT ![slot] =
                                    [p EXCEPT !.k = p.k + 1, !.log = log]]
                   /\ UNCHANGED gradebook
              ELSE /\ probes' = [probes EXCEPT ![slot] = Idle(log)]
                   /\ gradebook' =
                        IF ProbeFailed(p.okItems, ok)
                          THEN [gradebook EXCEPT !.error = EndpointsMissing,
                                                 !.items = <<>>, !.scores = {}]
                        ELSE [gradebook EXCEPT !.items = p.itemsData,
                                               !.scores = ScoreMap(OrEmpty(data))]
        /\ UNCHANGED <<pageVars, appVars>>

\* the gradebook as constructed, courses loaded
GradebookFresh ==
    /\ gradebook = [courseId |-> NoCourse, items |-> <<>>, scores |-> {},
                    error |-> Null, info |-> Null]
    /\ probes = [slot \in Slots |-> Idle(<<>>)]

\* the App with role logged in and the voice console opened
AppAt(role) ==
    /\ GradebookFresh
    /\ appMe = role
    /\ meLoading = FALSE
    /\ tab = "voice"
    /\ token = role
    /\ authHeader = Bearer(role)
    /\ authInflight = NoAuthRequests
    /\ loginInflight = {}
    /\ logins = 0

\* --------------------------------------------------------------- behaviours
\* the voice console as constructed: first render done, effects not yet run,
\* GET /auth/me unanswered
ConsoleFresh ==
    /\ text = <<>>
    /\ loading = FALSE
    /\ me = Null
    /\ listening = FALSE
    /\ voiceSupported = TRUE
    /\ error = Null
    /\ responseJson = JsonNull
    /\ history = <<>>
    /\ recognitionRef = Null
    /\ effectsRun = FALSE
    /\ recState = "idle"
    /\ inflight = {}
    /\ idCount = 0
    /\ page = [quick |-> <<>>, response |-> NotRendered]

\* the console opened by an admin
InitFresh == ConsoleFresh /\ AppAt("admin")

\* the history after n commands "a", each answered before the next was sent
RECURSIVE Answered(_)
Answered(n) ==
    IF n = 0 THEN <<>>
    ELSE UpdateHistory(PushHistory(NewItem(MakeId(n - 1), <<"a">>, LocaleTime(n - 1)),
                                   Answered(n - 1)),
                       MakeId(n - 1), [response |-> StudentsReply, error |-> Null])

\* a long session in a browser without speech recognition: /auth/me answered,
\* the effects run, Prefilled commands answered
InitLong ==
    /\ text = <<>>
    /\ loading = FALSE
    /\ me = "student"
    /\ listening = FALSE
    /\ voiceSupported = FALSE
    /\ error = Null
    /\ responseJson = StudentsReply
    /\ history = Answered(Prefilled)
    /\ recognitionRef = Null
    /\ effectsRun = TRUE
    /\ recState = "idle"
    /\ inflight = {}
    /\ idCount = Prefilled
    /\ page = [quick |-> <<>>, response |-> NotRendered]
    /\ AppAt("student")

\* the history after n commands "a", each answered before the next was sent
\* except those of pend, which are still unanswered
RECURSIVE AnsweredExcept(_, _)
AnsweredExcept(n, pend) ==
    IF n = 0 THEN <<>>
    ELSE LET pushed == PushHistory(NewItem(MakeId(n - 1), <<"a">>, LocaleTime(n - 1)),
                                   AnsweredExcept(n - 1, pend))
         IN  IF MakeId(n - 1) \in pend
             THEN pushed
             ELSE UpdateHistory(pushed, MakeId(n - 1),
                                [response |-> StudentsReply, error |-> Null])

\* a session in a browser without speech recognition in which the first
\* command is still unanswered while nine later ones (sent with Enter) were
\* answered: the history is full and its oldest entry is pending
InitOldestPending ==
    /\ text = <<>>
    /\ loading = FALSE
    /\ me = "student"
    /\ listening = FALSE
    /\ voiceSupported = FALSE
    /\ error = Null
    /\ responseJson = StudentsReply
    /\ history = AnsweredExcept(HistoryCap, { MakeId(0) })
    /\ recognitionRef = Null
    /\ effectsRun = TRUE
    /\ recState = "idle"
    /\ inflight = { [id |-> MakeId(0), text |-> <<"a">>] }
    /\ idCount = HistoryCap
    /\ page = [quick |-> <<>>, response |-> NotRendered]
    /\ AppAt("student")

Init == InitFresh \/ InitLong

\* one event of the command dispatcher, the backend answering commands with
\* one of replies
DispatcherStep(replies) ==
    \/ \E t \in TypedTexts : SetText(t)
    \/ HandleSubmit
    \/ SendClick
    \/ \E n \in QuickClicks : QuickCommand(n)
    \/ \E i \in 1..HistoryCap : Run(i)
    \/ \E i \in 1..HistoryCap : View(i)
    \/ HandleClear
    \/ \E r \in inflight, data \in replies : CommandSucceeds(r, data)
    \/ \E r \in inflight, err \in Failures : CommandFails(r, err)

\* one event of the speech adapter
SpeechStep ==
    \/ \E ctor \in {Null, "ctor"} : SetupSpeech(ctor)
    \/ MicStart
    \/ MicStop
    \/ RecOnStart
    \/ RecOnEnd
    \/ \E e \in SpeechErrors : RecOnError(e)
    \/ \E event \in SpeechEvents : RecOnResult(event)

\* one event of the page
Step(replies) == DispatcherStep(replies) \/ SpeechStep

Next == Step(OkReplies)

Spec == Init /\ [][Next]_vars

\* the command dispatcher in the session whose oldest entry is pending
NextOldestPending == DispatcherStep(OkReplies)

SpecOldestPending == InitOldestPending /\ [][NextOldestPending]_vars

\* the page with an engine that delivers onend for every session that has
\* started or failed
SpecListen == Init /\ [][Next]_vars /\ WF_vars(RecOnEnd)

\* the page with an engine that answers every accepted start() with onstart
\* unless it reports an error first, and ends every session
SpecEngine == Init /\ [][Next]_vars /\ WF_vars(RecOnStart) /\ WF_vars(RecOnEnd)

\* the identifiers sendCommand can hand out within the bounds
RequestIds == 1..(Prefilled + MaxSubmits)

\* the request of the submission with identifier id completes: api.post
\* resolves, rejects, or is rejected by the client timeout of 10000 ms
Completes(id) ==
    \E r \in inflight :
        /\ r.id = id
        /\ \/ \E data \in OkReplies : CommandSucceeds(r, data)
           \/ \E err \in Failures : CommandFails(r, err)

\* long sessions in which every request completes
InitSettle == InitLong \/ InitOldestPending

SpecSettle ==
    /\ InitSettle
    /\ [][NextOldestPending]_vars
    /\ \A id \in RequestIds : WF_vars(Completes(id))

\* the same page with a backend that always answers with an object
NextShaped == Step(ObjectReplies)

SpecShaped == Init /\ [][NextShaped]_vars

\* ------------------------------------------------- renderer specification
\* the replies the renderer is applied to
RenderIntents == { Undefined, "", "unknown", "list_students", "list_courses" }

RenderTypes == { Undefined, Null, "students", "courses", "teachers", "enrollments", "fees" }

RenderInfos == { Null, "", "I couldn't understand this command." }

MaxRows == 2

RenderReplies ==
    { Reply(i, res, 0, t, info) :
        i \in RenderIntents, res \in { "absent", "null", "other" },
        t \in RenderTypes, info \in RenderInfos }
    \cup
    { Reply(i, "array", n, t, info) :
        i \in RenderIntents, n \in 0..MaxRows, t \in RenderTypes, info \in RenderInfos }

\* the console after its first command was answered with r, not yet re-rendered
InitRender ==
    \E r \in RenderReplies :
        /\ text = <<>>
        /\ loading = FALSE
        /\ me \in MeAnswers
        /\ listening = FALSE
        /\ voiceSupported = TRUE
        /\ error = Null
        /\ responseJson = r
        /\ history = UpdateHistory(PushHistory(NewItem(MakeId(0), <<"a">>, LocaleTime(0)), <<>>),
                                   MakeId(0), [response |-> r, error |-> Null])
        /\ recognitionRef = Null
        /\ effectsRun = FALSE
        /\ recState = "idle"
        /\ inflight = {}
        /\ idCount = 1
        /\ page = [quick |-> <<>>, response |-> NotRendered]
        /\ AppAt("student")

NextRender == Render

SpecRender == InitRender /\ [][NextRender]_vars

\* ------------------------------------------------- failure specification
\* the failures api.post can end with
FailureStatuses == { 400, 401, 403, 404, 422, 500 }

FailureBodies == { StringBody(""), StringBody("Not Found"),
                   ObjectBody("Not authenticated"), NoBody }

FailureInputs ==
    { HttpFailure(st, b) : st \in FailureStatuses, b \in FailureBodies }
    \cup { RequestFailure(m) : m \in { "Network Error", "timeout of 10000ms exceeded" } }
    \cup { SetupFailure(m) : m \in { "boom", "" } }

\* the console after " a " was typed and Enter pressed twice: two requests
\* in flight
InitPending ==
    /\ text = <<Space, "a", Space>>
    /\ loading = TRUE
    /\ me = Null
    /\ listening = FALSE
    /\ voiceSupported = TRUE
    /\ error = Null
    /\ responseJson = JsonNull
    /\ history = PushHistory(NewItem(MakeId(1), <<"a">>, LocaleTime(1)),
                             PushHistory(NewItem(MakeId(0), <<"a">>, LocaleTime(0)), <<>>))
    /\ recognitionRef = Null
    /\ effectsRun = FALSE
    /\ recState = "idle"
    /\ inflight = { [id |-> MakeId(0), text |-> <<"a">>], [id |-> MakeId(1), text |-> <<"a">>] }
    /\ idCount = 2
    /\ page = [quick |-> <<>>, response |-> NotRendered]
    /\ AppAt("admin")

NextFail == \E r \in inflight, err \in FailureInputs : CommandFails(r, err)

SpecFail == InitPending /\ [][NextFail]_vars

\* ------------------------------------------------------ App specification
\* the App as mounted: the mount effect has called loadMe with whatever
\* token an earlier visit left in localStorage
InitApp ==
    /\ ConsoleFresh
    /\ GradebookFresh
    /\ appMe = Null
    /\ meLoading = TRUE
    /\ tab = "voice"
    /\ token \in AuthTokens
    /\ authHeader = NoHeader
    /\ authInflight = Issue(NoAuthRequests, token, 1)
    /\ loginInflight = {}
    /\ logins = 0

NextApp ==
    \/ \E t \in AuthTokens : LoadMeSucceeds(t)
    \/ \E t \in AuthTokens : LoadMeFails(t)
    \/ \E account \in Roles : LoginSubmit(account)
    \/ \E account \in Roles : LoginSucceeds(account)
    \/ \E account \in Roles : LoginFails(account)
    \/ HandleLogout
    \/ \E t \in Tabs : SetTab(t)

SpecApp == InitApp /\ [][NextApp]_vars

\* ------------------------------------------------------ the token store alone
\* setAuthToken called with every token on every stored token and header;
\* another tab of the same origin may have changed the stored token
MaxAuthRequests == 4

RECURSIVE Total(_, _)
Total(requests, keys) ==
    IF keys = {} THEN 0
    ELSE LET k == CHOOSE x \in keys : TRUE
         IN  requests[k] + Total(requests, keys \ { k })

Headers == { NoHeader } \cup { Bearer(t) : t \in Roles }

SetAuthTokenCall(t) ==
    /\ Total(authInflight, AuthTokens) < MaxAuthRequests
    /\ SetAuthToken(t)
    /\ UNCHANGED <<pageVars, gradebookVars, appMe, meLoading, tab, loginInflight, logins>>

InitToken ==
    /\ ConsoleFresh
    /\ GradebookFresh
    /\ appMe = Null
    /\ meLoading = FALSE
    /\ tab = "voice"
    /\ token \in AuthTokens
    /\ authHeader \in Headers
    /\ authInflight = NoAuthRequests
    /\ loginInflight = {}
    /\ logins = 0

NextToken == \E t \in AuthTokens : SetAuthTokenCall(t)

SpecToken == InitToken /\ [][NextToken]_vars

\* -------------------------------------------------------- the gradebook alone
InitGradebook == ConsoleFresh /\ AppAt("teacher")

NextGradebook ==
    \/ \E slot \in Slots, cid \in Courses \cup { NoCourse } : SelectCourse(slot, cid)
    \/ \E slot \in Slots : Refresh(slot)
    \/ \E slot \in Slots, data \in ItemsBodies : ItemsAnswer(slot, TRUE, data)
    \/ \E slot \in Slots : ItemsAnswer(slot, FALSE, NullBody)
    \/ \E slot \in Slots, data \in ScoresBodies : ScoresAnswer(slot, TRUE, data)
    \/ \E slot \in Slots : ScoresAnswer(slot, FALSE, NullBody)

SpecGradebook == InitGradebook /\ [][NextGradebook]_vars

\* =================================================================== claims
\* src holds a character that is not whitespace
HasText(src) == \E k \in 1..Len(src) : src[k] # Space

\* t is src without its leading and trailing whitespace
IsTrimOf(t, src) ==
    /\ t = <<>> \/ (Head(t) # Space /\ t[Len(t)] # Space)
    /\ \E a \in 1..(Len(src) + 1), b \in 0..Len(src) :
          /\ t = SubSeq(src, a, b)
          /\ \A k \in 1..Len(src) : (k < a \/ k > b) => src[k] = Space

InflightIds == { r.id : r \in inflight }

\* the step adds exactly one history entry, with text cmd, and one request for cmd
OneNewEntry(src) ==
    /\ Cardinality(Ids(history') \ Ids(history)) = 1
    /\ history'[1].id \notin Ids(history)
    /\ IsTrimOf(history'[1].text, src)
    /\ inflight \subseteq inflight'
    /\ Cardinality(inflight' \ inflight) = 1
    /\ \A r \in inflight' \ inflight : r.id = history'[1].id /\ IsTrimOf(r.text, src)

\* C1: the history never holds more than 10 entries, and once an 11th
\* command has been submitted the entry of the 1st submission is gone
C1_HistoryBounded ==
    /\ Len(history) <= HistoryCap
    /\ idCount >= HistoryCap + 1 => MakeId(0) \notin Ids(history)

C1_Witness == idCount >= HistoryCap + 1 /\ Len(history) = HistoryCap

\* C2: every submit action (Enter, Send, quick command, Run) on a text that
\* is non-empty after trimming adds exactly one new history entry carrying
\* the trimmed text and issues exactly one POST /voice/command
C2_OneEntryPerSubmit ==
    [][ /\ ((HandleSubmit \/ SendClick) /\ HasText(text)) => OneNewEntry(text)
        /\ \A n \in QuickClicks :
              (QuickCommand(n) /\ HasText(QuickCommands(me)[n]))
                  => OneNewEntry(QuickCommands(me)[n])
        /\ \A i \in 1..Len(history) :
              (Run(i) /\ HasText(history[i].text)) => OneNewEntry(history[i].text)
      ]_vars

C2_Witness ==
    /\ Len(history) >= 2
    /\ history[1].text = <<"a">>
    /\ \E r \in inflight : r.id = history[1].id /\ r.text = <<"a">>
    /\ text = <<Space, "a", Space>>

\* C3: submitting the empty string or whitespace-only text creates no
\* history entry, issues no request and leaves loading, error, the
\* displayed response and the history unchanged
C3_EmptyRejected ==
    [][ ((HandleSubmit \/ SendClick) /\ ~HasText(text))
            => UNCHANGED <<history, inflight, loading, error, responseJson, idCount>> ]_vars

C3_Witness ==
    /\ text = <<Space>>
    /\ ~loading
    /\ history # <<>>
    /\ Truthy(responseJson)

\* the step is the Run button of entry i taking effect
RunStep(i) == i \in 1..Len(history) /\ Run(i) /\ idCount' # idCount

\* C4 as stated: re-running an entry creates a new entry and neither mutates
\* nor removes the original, also when it is the oldest of a full history
C4_RunKeepsOriginal ==
    [][ \A i \in 1..HistoryCap :
            RunStep(i) => /\ history'[1].id \notin Ids(history)
                          /\ \E j \in 1..Len(history') : history'[j] = history[i]
      ]_vars

\* C4 amended: re-running entry i puts a new pending entry with the same
\* text in front and shifts every entry, unchanged, one place down; the
\* original stays unless it was the 10th entry of a full history, which is
\* evicted
C4_RunShiftsOriginal ==
    [][ \A i \in 1..HistoryCap :
            RunStep(i) =>
                /\ history'[1].id \notin Ids(history)
                /\ history'[1].text = history[i].text
                /\ ~Truthy(history'[1].response) /\ ~TruthyStr(history'[1].error)
                /\ Len(history') = (IF Len(history) < HistoryCap
                                    THEN Len(history) + 1 ELSE HistoryCap)
                /\ \A j \in 1..Len(history) :
                      j < HistoryCap => history'[j + 1] = history[j]
                /\ i = HistoryCap => history[i].id \notin Ids(history')
      ]_vars

C4_Witness ==
    /\ Len(history) = HistoryCap
    /\ idCount = HistoryCap + 1
    /\ history[1].id \in InflightIds
    /\ history[1].text = history[HistoryCap].text
    /\ Truthy(history[2].response)

\* a response or an error is populated
Populated(v) == Truthy(v)

PopulatedStr(m) == m \notin {Null, Undefined}

\* C5: an entry whose request is in flight has neither response nor error;
\* an entry whose request has completed has exactly one of them populated
C5_ExactlyOneOnceSettled ==
    \A i \in 1..Len(history) :
        IF history[i].id \in InflightIds
        THEN ~Populated(history[i].response) /\ ~PopulatedStr(history[i].error)
        ELSE Populated(history[i].response) # PopulatedStr(history[i].error)

\* C6: View on an entry without a stored response leaves the displayed
\* response unchanged
C6_ViewWithoutResponse ==
    [][ \A i \in 1..HistoryCap :
            (i \in 1..Len(history) /\ ~Truthy(history[i].response) /\ View(i))
                => responseJson' = responseJson
      ]_vars

C6_Witness ==
    /\ ~loading
    /\ Truthy(responseJson)
    /\ \E i \in 1..Len(history) : ~Truthy(history[i].response)

\* C7: stop while the adapter is not listening (the flag is off, or the
\* session is no longer capturing) changes nothing
C7_StopWhenNotListening ==
    [][ (StopListening /\ (~listening \/ recState \notin Capturing))
            => UNCHANGED vars ]_vars

C7_Witness == listening /\ recState = "stopping" /\ ~loading /\ voiceSupported

\* C10 as stated (checked with a backend that only answers with objects, so
\* that null payloads play no part): a submit sets loading, clears error and displayed response
\* and issues one request; whenever a request completes exactly one of
\* displayed response and error is set
C10_ExactlyOneDisplayed ==
    [][ /\ idCount' # idCount
            => /\ loading' /\ error' = Null /\ responseJson' = JsonNull
               /\ Cardinality(inflight' \ inflight) = 1
        /\ (inflight' # inflight /\ inflight' \subseteq inflight)
            => (responseJson' # JsonNull) # (error' # Null)
      ]_vars

\* ------------------------------------------------------ claims: renderer
\* the displayed response names an intent other than "unknown"
KnownIntent(r) == r.intent \notin { Undefined, Null, "", "unknown" }

\* results_type "students" with an empty results array
EmptyStudents(r) ==
    Truthy(r) /\ r.results_type = "students" /\ r.results = "array" /\ r.rows = 0

Displayed == page.response.state = "response"

\* C8 as stated: results_type "students" with empty results shows the "no
\* records found" message whatever parsed.intent is
C8_NoRecordsAnyIntent ==
    (Displayed /\ EmptyStudents(responseJson)) => page.response.section = NoRecords

\* C8 amended: results_type "students" with empty results shows "no records
\* found" when parsed.intent is present and not "unknown", and nothing (no
\* message, no table) when it is "unknown", empty or absent; never a table
\* and never an error
C8_NoRecordsKnownIntent ==
    (Displayed /\ EmptyStudents(responseJson)) =>
        /\ page.response.section =
              (IF KnownIntent(responseJson) THEN NoRecords ELSE Nothing)
        /\ error = Null

C8_Witness ==
    /\ Displayed
    /\ EmptyStudents(responseJson)
    /\ KnownIntent(responseJson)
    /\ page.response.section = NoRecords

\* C9 as stated: intent "unknown" or absent shows the info explanation and
\* the example commands and no table, also without results and without info
C9_GuidanceAlways ==
    (Displayed /\ ~KnownIntent(responseJson)) =>
        /\ page.response.info # Null
        /\ page.quick # <<>>
        /\ page.response.section.kind \notin { "table", "dump" }

\* C9 amended: intent "unknown", empty or absent shows the intent as
\* "unknown" and the example commands; the info explanation exactly when
\* info is a non-empty string; no table and no message when results is
\* absent, not an array or empty, and the table or dump of a non-empty array
C9_GuidanceWhenInfo ==
    (Displayed /\ ~KnownIntent(responseJson)) =>
        /\ page.response.intent = "unknown"
        /\ page.quick # <<>>
        /\ page.response.info =
              (IF responseJson.info \in { Undefined, Null, "" }
               THEN Null ELSE responseJson.info)
        /\ IF responseJson.results = "array" /\ responseJson.rows > 0
           THEN page.response.section.kind \in { "table", "dump" }
           ELSE page.response.section = Nothing

C9_Witness ==
    /\ Displayed
    /\ responseJson.intent = "unknown"
    /\ responseJson.results = "absent"
    /\ responseJson.info = Null
    /\ page.response.section = Nothing
    /\ page.response.info = Null

\* ------------------------------------------------------ claims: failures
\* the four outcomes of a failed command
Outcome(err) ==
    IF err.kind = "response"
    THEN (IF err.status = 401 THEN "Unauthenticated" ELSE "ServerError")
    ELSE IF err.kind = "request" THEN "Unreachable" ELSE "ClientError"

\* the message the claim gives to a failure
OutcomeMessage(err) ==
    CASE Outcome(err) = "Unauthenticated" -> "Not authenticated. Please login first."
      [] Outcome(err) = "ServerError" ->
             "Error " \o ToString(err.status) \o ": " \o BodyText(err.data)
      [] Outcome(err) = "Unreachable" ->
             "No response from server. Is backend running on 127.0.0.1:8000?"
      [] OTHER -> "Unexpected error: " \o err.message

\* C11: a failed command sets the error to the message of its outcome (401:
\* not authenticated; other HTTP response: "Error <status>: <body>"; no
\* response: the no-response message; anything else: the unexpected-error
\* message); failures of different outcomes get different messages and the
\* error is never left empty
C11_FailureClassified ==
    [][ /\ \A r \in inflight, err \in FailureInputs :
              CommandFails(r, err) =>
                  /\ error' = OutcomeMessage(err)
                  /\ error' \notin { Null, Undefined, "" }
        /\ \A e1, e2 \in FailureInputs :
              Outcome(e1) # Outcome(e2) => FailureMessage(e1) # FailureMessage(e2)
      ]_vars

C11_Witness ==
    /\ inflight = {}
    /\ error = "Not authenticated. Please login first."
    /\ history[2].error = "Error 404: {\"detail\":\"Not authenticated\"}"

\* ---------------------------------------------------- claims: concurrency
\* the entry of request r in history h, as a set (empty once evicted)
EntryOf(h, r) == { h[i] : i \in { j \in 1..Len(h) : h[j].id = r.id } }

\* C12: a submission made while a request is in flight is accepted: it adds
\* its own entry and its own request, every earlier request stays in flight
\* with its entry untouched (short of eviction from a full history); and whichever request is answered, its reply
\* becomes the displayed response, also when a later submission exists
C12_ConcurrentAccepted ==
    [][ /\ (idCount' # idCount /\ inflight # {}) =>
              /\ inflight \subseteq inflight'
              /\ Cardinality(inflight' \ inflight) = 1
              /\ history'[1].id \notin Ids(history)
              /\ \A r \in inflight :
                    /\ EntryOf(history', r) \subseteq EntryOf(history, r)
                    /\ Len(history) < HistoryCap => EntryOf(history', r) = EntryOf(history, r)
        /\ \A r \in inflight, data \in OkReplies :
              CommandSucceeds(r, data) => responseJson' = data
      ]_vars

\* the displayed response is the one of the earlier of two submissions
C12_Witness ==
    /\ inflight = {}
    /\ idCount = 2
    /\ history[1].response = StudentsReply
    /\ history[2].response = UnknownReply
    /\ responseJson = UnknownReply

\* ---------------------------------------------------------- claims: speech
\* C13: a start request while the session is started (reported by onstart or
\* not yet) opens no second session: the session and the listening flag stay
\* as they are, nothing else changes, and only the could-not-start message
\* is shown
C13_StartWhileStarted ==
    [][ (StartListening /\ recognitionRef # Null /\ voiceSupported /\ recState \in Capturing)
            => /\ recState' = recState
               /\ listening' = listening
               /\ error' = "Could not start microphone. Please try again."
               /\ UNCHANGED <<text, loading, responseJson, history, inflight, idCount>>
      ]_vars

C13_Witness ==
    /\ recState = "starting"
    /\ ~listening
    /\ error = "Could not start microphone. Please try again."

C15_NewestFirst ==
    /\ Len(history) = (IF idCount < HistoryCap THEN idCount ELSE HistoryCap)
    /\ \A i \in 1..Len(history) : history[i].id = MakeId(idCount - i)
    /\ \A i \in 1..(Len(history) - 1) : history[i].at > history[i + 1].at

\* a full history after the 11th submission, the 11th answered before the 10th
C15_Witness ==
    /\ idCount = HistoryCap + 1
    /\ Len(history) = HistoryCap
    /\ history[1].id \notin InflightIds
    /\ history[2].id \in InflightIds

\* an entry as pushed: neither response nor error
Pending(h) == h.response = JsonUndefined /\ h.error = Undefined

\* C16: an entry enters the history pending, in front, with its request in
\* flight; it changes only in the step that completes its request, in place
\* and keeping text and timestamp; once its request has completed no step
\* changes it: it stays as it is until it is evicted
C16_SettledOnce ==
    [][ /\ \A j \in 1..Len(history') :
              history'[j].id \notin Ids(history)
                  => j = 1 /\ Pending(history'[j]) /\ history'[j].id \in { r.id : r \in inflight' }
        /\ \A i \in 1..Len(history) : \A j \in 1..Len(history') :
              (history'[j].id = history[i].id /\ history'[j] # history[i])
                  => /\ history[i].id \in InflightIds
                     /\ history'[j].id \notin { r.id : r \in inflight' }
                     /\ j = i
                     /\ history'[j].text = history[i].text
                     /\ history'[j].at = history[i].at
      ]_vars

\* the first command failed, the second was submitted and answered after it
C16_Witness ==
    /\ Len(history) = 2
    /\ inflight = {}
    /\ history[2].error = "Error 500: Internal Server Error"
    /\ history[2].response = JsonUndefined
    /\ history[1].response = UnknownReply
    /\ responseJson = JsonNull

\* C17: View on an entry with a stored response displays that response and
\* changes nothing else: no request is issued, and history, loading, error
\* and text stay as they are
C17_ViewOnlyDisplays ==
    [][ \A i \in 1..HistoryCap :
            (i \in 1..Len(history) /\ Truthy(history[i].response) /\ View(i))
                => /\ responseJson' = history[i].response
                   /\ UNCHANGED <<history, loading, error, text, inflight, idCount,
                                  listening, recState>>
      ]_vars

\* the 10th command failed, then an older entry was viewed: its response is
\* displayed next to the error of the failed command
C17_Witness ==
    /\ idCount = Prefilled + 1
    /\ inflight = {}
    /\ history[1].error = "Not authenticated. Please login first."
    /\ error = history[1].error
    /\ responseJson = StudentsReply

\* C18 as stated: whenever a request fails, the entry created by that
\* submission carries the failure message afterwards, also when more than 10
\* commands were submitted before the failure arrived
C18_FailureOnEntry ==
    [][ \A r \in inflight, err \in Failures :
            CommandFails(r, err)
                => \E i \in 1..Len(history') :
                      history'[i].id = r.id /\ history'[i].error = error'
      ]_vars

\* C18 amended: a failure is always displayed; it is recorded on the entry
\* of its submission when that entry is still in the history, and on no
\* entry (the history stays as it is) when 10 later submissions have
\* evicted it
C18_FailureOnEntryIfKept ==
    [][ \A r \in inflight, err \in Failures :
            CommandFails(r, err)
                => /\ error' \notin { Null, Undefined, "" }
                   /\ r.id \in Ids(history)
                          => \E i \in 1..Len(history) :
                                /\ history[i].id = r.id
                                /\ history' = [history EXCEPT ![i].error = error']
                   /\ r.id \notin Ids(history) => history' = history
      ]_vars

\* the first command failed after the 11th was submitted: the failure is
\* displayed and no entry carries it
C18_Witness ==
    /\ idCount = HistoryCap + 1
    /\ MakeId(0) \notin Ids(history)
    /\ MakeId(0) \notin InflightIds
    /\ error = "No response from server. Is backend running on 127.0.0.1:8000?"
    /\ \A i \in 1..Len(history) : history[i].error # error

\* C19: a successful reply with intent "unknown" is not an error: the
\* completion leaves the console error as it is (null after the submit),
\* displays the reply, and settles the entry with the reply as response and
\* a null error
C19_UnknownIsNoError ==
    [][ \A r \in inflight :
            CommandSucceeds(r, UnknownReply)
                => /\ error' = error
                   /\ responseJson' = UnknownReply
                   /\ \A i \in 1..Len(history) :
                         history[i].id = r.id
                             => /\ history'[i].response = UnknownReply
                                /\ history'[i].error = Null
      ]_vars

C19_Witness ==
    /\ inflight = {}
    /\ idCount = 1
    /\ error = Null
    /\ responseJson = UnknownReply
    /\ history[1].response = UnknownReply
    /\ history[1].error = Null

\* C20: once stop has been called on a session (the session is stopping),
\* the listening flag eventually is false; in the states in which no session
\* is open or the session has failed the flag is false already, so stop
\* leads to not listening from whatever state it was called in
C20_StopLeadsToIdle ==
    /\ [](recState \in { "idle", "errored" } => ~listening)
    /\ (recState = "stopping") ~> (~listening)

\* stop was called during a session that had delivered a result
C20_Witness ==
    /\ recState = "stopping"
    /\ listening
    /\ text = <<"a">>
    /\ error = Null

\* no speech engine behind the page
NoEngine == ~voiceSupported \/ recognitionRef = Null

\* start without an engine is non-fatal: only the unsupported message is
\* set; without an engine the flag is never on, and a typed command can be
\* submitted
StartWithoutEngine ==
    /\ [][ (StartListening /\ NoEngine)
              => /\ error' = "Speech recognition is not supported in this browser. Use Chrome/Edge, or type the command."
                 /\ ~listening'
                 /\ UNCHANGED <<text, loading, responseJson, history, inflight,
                                idCount, recState, listening>>
         ]_vars
    /\ [](NoEngine => ~listening /\ recState = "idle")
    /\ []((NoEngine /\ HasText(text) /\ idCount < SubmitLimit
              /\ Cardinality(inflight) < MaxInflight)
            => ENABLED (HandleSubmit /\ idCount' = idCount + 1))

\* start on an idle engine is accepted: the error is cleared and a session
\* is opened
StartAccepted ==
    [][ (StartListening /\ ~NoEngine /\ recState = "idle")
            => error' = Null /\ recState' = "starting" /\ listening' = listening ]_vars

\* C21 as stated: start without an engine is non-fatal, and start on an
\* available, idle engine leads to the listening state
C21_StartLeadsToListening ==
    /\ StartWithoutEngine
    /\ StartAccepted
    /\ (recState = "starting") ~> listening

\* C21 amended: start without an engine is non-fatal; start on an available,
\* idle engine opens a session, and the session leads to the listening
\* state (onstart) unless the engine reports an error first
C21_StartLeadsToListeningOrError ==
    /\ StartWithoutEngine
    /\ StartAccepted
    /\ (recState = "starting") ~> (listening \/ recState = "errored")

\* the unsupported message is shown and a command has been typed
C21_Witness ==
    /\ error = "Speech recognition is not supported in this browser. Use Chrome/Edge, or type the command."
    /\ ~listening
    /\ text = <<Space, "a", Space>>

\* the kinds of engine errors, and the codes the engine may report
ErrorKind(e) ==
    IF e \in { "not-allowed", "service-not-allowed" } THEN "permission-denied"
    ELSE IF e = "no-speech" THEN "no-speech"
    ELSE "engine-error"

EngineErrorCodes ==
    { "not-allowed", "service-not-allowed", "no-speech", "network", "aborted",
      "audio-capture", "", Undefined }

\* C22: an engine error switches the listening flag off and sets the
\* message of its kind (permission denied, no speech, or the engine's error
\* code), never an empty one, with different messages for different kinds;
\* it leaves history, loading, displayed response and pending requests as
\* they are; the session then ends (idle), and a typed command can still be
\* submitted
C22_EngineErrorIsWarning ==
    /\ [][ \A e \in SpeechErrors :
              RecOnError(e)
                  => /\ ~listening'
                     /\ error' = (CASE ErrorKind(e) = "permission-denied" ->
                                         "Microphone permission denied. Allow mic permission in browser site settings, then reload."
                                    [] ErrorKind(e) = "no-speech" ->
                                         "No speech detected. Try again and speak clearly."
                                    [] OTHER -> "Speech recognition error: " \o e)
                     /\ UNCHANGED <<history, loading, responseJson, inflight, idCount, text>>
         ]_vars
    /\ [](\A e1, e2 \in EngineErrorCodes :
              /\ SpeechErrorMessage(e1) \notin { "", Null, Undefined }
              /\ ErrorKind(e1) # ErrorKind(e2)
                    => SpeechErrorMessage(e1) # SpeechErrorMessage(e2))
    /\ []((recState = "errored" /\ HasText(text) /\ idCount < SubmitLimit
              /\ Cardinality(inflight) < MaxInflight)
            => ENABLED (HandleSubmit /\ idCount' = idCount + 1))
    /\ (recState = "errored") ~> (recState = "idle" /\ ~listening)

\* the engine reported a denied permission while a command was pending
C22_Witness ==
    /\ recState = "errored"
    /\ ~listening
    /\ error = "Microphone permission denied. Allow mic permission in browser site settings, then reload."
    /\ loading
    /\ inflight # {}

\* -------------------------------------------- claims: renderer dispatch
\* the displayed response has a non-empty results array
HasRows(r) == Truthy(r) /\ r.results = "array" /\ r.rows > 0

KnownTypes == { "students", "courses", "teachers", "enrollments" }

\* C23: with a non-empty results array the results section is the table of
\* the results_type (students, courses, teachers, enrollments, each with its
\* own columns, one row per result) and the generic dump for any other or
\* absent results_type; something is rendered for every results_type
C23_DispatchOnType ==
    (Displayed /\ HasRows(responseJson)) =>
        LET section == page.response.section
            type == responseJson.results_type
        IN  /\ section.rows = responseJson.rows
            /\ type = "students" =>
                  section.kind = "table" /\ section.columns = <<"ID", "Name", "Department", "GPA">>
            /\ type = "courses" =>
                  section.kind = "table" /\ section.columns = <<"ID", "Code", "Title", "Credit hours">>
            /\ type = "teachers" =>
                  /\ section.kind = "table"
                  /\ section.columns = <<"ID", "Name", "Department", "Email", "Expertise">>
            /\ type = "enrollments" =>
                  /\ section.kind = "table"
                  /\ section.columns = <<"ID", "Student", "Course", "Semester", "Status", "Grade">>
            /\ type \notin KnownTypes => section.kind = "dump"

C23_Witness ==
    /\ Displayed
    /\ HasRows(responseJson)
    /\ responseJson.results_type = Undefined
    /\ responseJson.intent = "unknown"
    /\ page.response.section = [kind |-> "dump", columns |-> <<>>, rows |-> 2]

\* C24 as stated: with a known intent "no records found" is shown when
\* results is empty and when results_type is not one of the known tags
C24_NoRecordsForUnknownType ==
    (Displayed /\ KnownIntent(responseJson)
       /\ (~HasRows(responseJson) \/ responseJson.results_type \notin KnownTypes))
        => page.response.section = NoRecords

\* C24 amended: with a known intent "no records found" is shown exactly when
\* results is empty, absent or not an array, whatever results_type is; a
\* results_type that is not a known tag, with a non-empty results array,
\* gives the generic dump
C24_NoRecordsForNoRows ==
    (Displayed /\ KnownIntent(responseJson)) =>
        /\ page.response.section = NoRecords <=> ~HasRows(responseJson)
        /\ (HasRows(responseJson) /\ responseJson.results_type \notin KnownTypes)
              => page.response.section.kind = "dump"

C24_Witness ==
    /\ Displayed
    /\ responseJson.intent = "list_courses"
    /\ responseJson.results_type = "fees"
    /\ HasRows(responseJson)
    /\ page.response.section = [kind |-> "dump", columns |-> <<>>, rows |-> 1]

C26_EventIffTokenChanges ==
    [][\A t \in AuthTokens :
          SetAuthTokenCall(t) =>
              /\ Total(authInflight', AuthTokens) - Total(authInflight, AuthTokens)
                     = (IF token = t THEN 0 ELSE 1)
              /\ token' = t
              /\ authHeader' = (IF t = Null THEN NoHeader ELSE Bearer(t))]_vars

\* a removal and a replacement have each dispatched, a repeated call has not
C26_Witness ==
    /\ token = "student"
    /\ authHeader = Bearer("student")
    /\ authInflight[Null] = 1
    /\ authInflight["student"] = 1
    /\ Total(authInflight, AuthTokens) = 2

\* --------------------------------------------------------- claims: gradebook
\* the answers of log to the requests for what ("/items" or "/scores")
AnswersFor(log, what) == SelectSeq(log, LAMBDA a : a.url[3] = what)

\* the answers came from urls in their order, none after a success
InListedOrder(part, urls) ==
    /\ Len(part) <= Len(urls)
    /\ \A j \in 1..Len(part) :
          /\ part[j].url = urls[j]
          /\ j < Len(part) => ~part[j].ok

FirstSucceeded(part) == part # <<>> /\ part[Len(part)].ok

Exhausted(part, urls) == Len(part) = Len(urls) /\ ~FirstSucceeded(part)

ProbedInOrder(p) ==
    LET itemsPart == AnswersFor(p.log, "/items")
        scoresPart == AnswersFor(p.log, "/scores")
        cid == p.log[1].url[2]
    IN  /\ p.pc = "items" => scoresPart = <<>> /\ ~FirstSucceeded(itemsPart)
        /\ p.pc = "scores" => ~FirstSucceeded(scoresPart)
        /\ p.log # <<>> =>
              /\ p.log = itemsPart \o scoresPart
              /\ InListedOrder(itemsPart, ItemsUrls(cid))
              /\ InListedOrder(scoresPart, ScoresUrls(cid))
              /\ p.pc # "items" =>
                    \/ FirstSucceeded(itemsPart)
                    \/ Exhausted(itemsPart, ItemsUrls(cid))

ProbeEnds(slot) == probes[slot].pc = "scores" /\ probes'[slot].pc = "idle"

\* C27: fetchItemsAndScores tries the candidate URLs for items, and then for
\* scores, in their listed order and stops at the first that succeeds; if no
\* candidate succeeds for items or for scores it sets the error message and
\* empties items and scores, otherwise it stores the items and the score map
\* of the first successful responses.
C27_ProbesInOrderAndStoresFirst ==
    /\ [](\A slot \in Slots : ProbedInOrder(probes[slot]))
    /\ [][\A slot \in Slots :
            ProbeEnds(slot) =>
                LET log == probes'[slot].log
                    itemsPart == AnswersFor(log, "/items")
                    scoresPart == AnswersFor(log, "/scores")
                    cid == log[1].url[2]
                IN  /\ \/ FirstSucceeded(scoresPart)
                       \/ Exhausted(scoresPart, ScoresUrls(cid))
                    /\ IF FirstSucceeded(itemsPart) /\ FirstSucceeded(scoresPart)
                          THEN LET itemsData == itemsPart[Len(itemsPart)].data
                                   scoresData == scoresPart[Len(scoresPart)].data
                               IN  /\ gradebook'.items = itemsData.rows
                                   /\ gradebook'.scores = ScoreMap(scoresData.rows)
                                   /\ gradebook'.error = gradebook.error
                        ELSE /\ gradebook'.error = EndpointsMissing
                             /\ gradebook'.items = <<>>
                             /\ gradebook'.scores = {}]_vars

\* items came from the second URL after the first failed, scores from the
\* first URL, and both are stored
C27_Witness ==
    \E slot \in Slots :
        /\ probes[slot].pc = "idle"
        /\ Len(probes[slot].log) = 3
        /\ ~probes[slot].log[1].ok
        /\ probes[slot].log[2] =
              Answer(ItemsUrls("101")[2], TRUE, Array(<<AssessmentItem(1)>>))
        /\ probes[slot].log[3] =
              Answer(ScoresUrls("101")[1], TRUE, Array(<<ScoreCell(1, 1, 7)>>))
        /\ gradebook.items = <<AssessmentItem(1)>>
        /\ gradebook.scores = { [key |-> <<1, 1>>, value |-> 7] }
        /\ gradebook.error = Null

\* ------------------------------------------------------ claims: loading flag
\* C28: the loading flag is true whenever at least one command request is in
\* flight, for every interleaving of submissions (including form submit by
\* Enter while a request is pending) and completions.
C28_LoadingWhileInFlight == inflight # {} => loading

\* ------------------------------------------------------------ claims: logout
\* C29: after handleLogout the application stays in the not-logged-in state
\* (me = null, no dashboard rendered) until a later login succeeds, also when
\* a /auth/me request issued before the logout completes after it. The stored
\* token is removed by handleLogout and set again only by a successful login.
C29_LoggedOutUntilLogin ==
    token = Null => appMe = Null /\ Shown \in { "Loading", "LoginBox" }

\* ------------------------------------------------- claims: frame of settling
\* the step completes request r
Settles(r) == r \in inflight /\ inflight' = inflight \ { r }

\* C30: settling a command changes only the history entry created by that
\* command: a response or a failure changes at most the entry with the
\* submission's own id, and when that entry has been evicted it changes no
\* entry and does not put it back.
C30_SettlesOwnEntryOnly ==
    [][ \A r \in inflight :
            Settles(r)
                => /\ Len(history') = Len(history)
                   /\ \A i \in 1..Len(history) :
                         /\ history'[i].id = history[i].id
                         /\ history[i].id # r.id => history'[i] = history[i]
                   /\ r.id \notin Ids(history)
                          => history' = history /\ r.id \notin Ids(history')
      ]_vars

\* the first command was answered after the 11th had evicted its entry: the
\* reply is displayed, the 11th entry is still pending and the others are as
\* they were
C30_Witness ==
    /\ idCount = HistoryCap + 1
    /\ MakeId(0) \notin Ids(history)
    /\ MakeId(0) \notin InflightIds
    /\ responseJson = UnknownReply
    /\ Pending(history[1])
    /\ \A i \in 2..Len(history) : history[i].response = StudentsReply

====
